---- MODULE Spec2Model ----
(***************************************************************************)
(* A state-machine model of konfug (src/konfug.py): the Konfug resolver    *)
(* (metaconfiguration, snapshot construction, raw_setting, secret,         *)
(* hot_settings) and the live-value classes HotFug / HotFugCollection.     *)
(*                                                                         *)
(* Python values are sequences of tokens.  A str is the sequence of its    *)
(* characters; every other value starts with a tag token ("<None>",        *)
(* "<int>", ...), so that all values are comparable with one another.      *)
(***************************************************************************)
EXTENDS Naturals, Sequences, FiniteSets, TLC

\* ------------------------------------------------------------------------
\* Python values
\* ------------------------------------------------------------------------
NoneV  == <<"<None>">>
TrueV  == <<"<True>">>
FalseV == <<"<False>">>
\* "the key is not in the mapping" (os.environ, a dict, kwargs): not a value.
Absent == <<"<absent>">>

Tags == {"<None>", "<True>", "<False>", "<int>", "<float>", "<list>",
         "<dict>", "<absent>", "<;>"}

IsStr(v)  == v = <<>> \/ Head(v) \notin Tags
HasTag(v, t) == v # <<>> /\ Head(v) = t

\* Python truthiness, as used by `if x`, `x or y`, `x and y`.
Truthy(v) ==
    /\ v # Absent
    /\ v # NoneV
    /\ v # FalseV
    /\ v # <<>>
    /\ v # <<"<int>", "0">>
    /\ v # <<"<float>", "0", ".", "0">>
    /\ v # <<"<list>">>
    /\ v # <<"<dict>", "{", "}">>

\* Results of a call: a returned value or a raised exception.
Ok(v)        == [kind |-> "ok", val |-> v]
Raise(cls, a) == [kind |-> "err", val |-> <<cls, a>>]

UTF8 == <<"U", "T", "F", "-", "8">>

DEFAULT_FALSEY_EXPRESSIONS ==
    { <<"0">>, <<"f", "a", "l", "s", "e">>,
      <<"<int>", "0">>, <<"<float>", "0", ".", "0">>, FalseV, NoneV }

\* ------------------------------------------------------------------------
\* str helpers (str.strip, str.split)
\* ------------------------------------------------------------------------
Whitespace == {" ", "\t"}
Digits == {"0", "1", "2", "3", "4", "5", "6", "7", "8", "9"}

RECURSIVE lstrip(_)
lstrip(s) == IF s # <<>> /\ Head(s) \in Whitespace THEN lstrip(Tail(s)) ELSE s

RECURSIVE rstrip(_)
rstrip(s) ==
    IF s # <<>> /\ s[Len(s)] \in Whitespace
    THEN rstrip(SubSeq(s, 1, Len(s) - 1))
    ELSE s

strip(s) == rstrip(lstrip(s))

\* s.split(sep) for a non-empty sep: the pieces, in order, empty ones kept.
RECURSIVE split_from(_, _, _)
split_from(s, sep, cur) ==
    IF s = <<>> THEN <<cur>>
    ELSE IF Len(s) >= Len(sep) /\ SubSeq(s, 1, Len(sep)) = sep
         THEN <<cur>> \o split_from(SubSeq(s, Len(sep) + 1, Len(s)), sep, <<>>)
         ELSE split_from(Tail(s), sep, Append(cur, Head(s)))

split(s, sep) == split_from(s, sep, <<>>)

\* A list of str as one value: the tag, then every item closed by "<;>".
RECURSIVE ListV(_)
ListV(parts) ==
    IF parts = <<>> THEN <<"<list>">>
    ELSE ListV(SubSeq(parts, 1, Len(parts) - 1))
         \o parts[Len(parts)] \o <<"<;>">>

AllDigits(s) == s # <<>> /\ \A i \in 1..Len(s) : s[i] \in Digits

RECURSIVE NoLeadingZeros(_)
NoLeadingZeros(s) ==
    IF Len(s) > 1 /\ Head(s) = "0" THEN NoLeadingZeros(Tail(s)) ELSE s

\* Position of the first "." of s, 0 when there is none.
DotAt(s) ==
    IF \E i \in 1..Len(s) : s[i] = "."
    THEN CHOOSE i \in 1..Len(s) : s[i] = "." /\ \A j \in 1..(i - 1) : s[j] # "."
    ELSE 0

\* ------------------------------------------------------------------------
\* Coercions
\* ------------------------------------------------------------------------
to_bool(val, falsey_expressions) ==
    Ok(IF val \in falsey_expressions THEN FalseV ELSE TrueV)

to_stringlist(val, sep) ==
    IF ~IsStr(val) THEN Raise("AttributeError", "split")
    ELSE IF ~IsStr(sep) THEN Raise("TypeError", "split")
    ELSE LET pieces == split(val, sep)
             kept   == SelectSeq(pieces, LAMBDA p : strip(p) # <<>>)
         IN  Ok(ListV([i \in 1..Len(kept) |-> strip(kept[i])]))

\* The builtin int(): decimal text, or a number.
to_int(val) ==
    IF IsStr(val) THEN
        IF AllDigits(strip(val))
        THEN Ok(<<"<int>">> \o NoLeadingZeros(strip(val)))
        ELSE Raise("ValueError", "int")
    ELSE IF HasTag(val, "<int>") THEN Ok(val)
    ELSE IF HasTag(val, "<float>")
         THEN Ok(<<"<int>">> \o SubSeq(val, 2, DotAt(val) - 1))
    ELSE IF val = TrueV THEN Ok(<<"<int>", "1">>)
    ELSE IF val = FalseV THEN Ok(<<"<int>", "0">>)
    ELSE Raise("TypeError", "int")

\* The builtin float(): decimal text with an optional fraction, or a number.
to_float(val) ==
    IF IsStr(val) THEN
        LET t == strip(val)
            d == DotAt(t)
        IN  IF AllDigits(t)
            THEN Ok(<<"<float>">> \o NoLeadingZeros(t) \o <<".", "0">>)
            ELSE IF d > 1 /\ AllDigits(SubSeq(t, 1, d - 1))
                          /\ AllDigits(SubSeq(t, d + 1, Len(t)))
                 THEN Ok(<<"<float>">> \o NoLeadingZeros(SubSeq(t, 1, d - 1))
                         \o SubSeq(t, d, Len(t)))
                 ELSE Raise("ValueError", "float")
    ELSE IF HasTag(val, "<float>") THEN Ok(val)
    ELSE IF HasTag(val, "<int>") THEN Ok(<<"<float>">> \o Tail(val) \o <<".", "0">>)
    ELSE IF val = TrueV THEN Ok(<<"<float>", "1", ".", "0">>)
    ELSE IF val = FalseV THEN Ok(<<"<float>", "0", ".", "0">>)
    ELSE Raise("TypeError", "float")

\* json.loads, by the shape of the document: an object, an array, a number,
\* a literal; anything else is not JSON.  A non-str argument is a TypeError.
json_loads(val) ==
    IF ~IsStr(val) THEN Raise("TypeError", "json")
    ELSE LET t == strip(val) IN
         IF Len(t) >= 2 /\ Head(t) = "{" /\ t[Len(t)] = "}"
            THEN Ok(<<"<dict>">> \o t)
         ELSE IF Len(t) >= 2 /\ Head(t) = "[" /\ t[Len(t)] = "]"
            THEN Ok(<<"<list>">> \o t)
         ELSE IF AllDigits(t) THEN Ok(<<"<int>">> \o NoLeadingZeros(t))
         ELSE IF t = <<"n", "u", "l", "l">> THEN Ok(NoneV)
         ELSE IF t = <<"t", "r", "u", "e">> THEN Ok(TrueV)
         ELSE IF t = <<"f", "a", "l", "s", "e">> THEN Ok(FalseV)
         ELSE Raise("JSONDecodeError", "json")

to_dict(val) ==
    LET parsed == json_loads(val)
        dict_  == IF parsed.kind = "ok" THEN parsed.val ELSE val
    IN  IF parsed.kind = "err" /\ parsed.val[1] # "TypeError" THEN parsed
        ELSE IF ~HasTag(dict_, "<dict>") THEN Raise("ValueError", "Not a dict")
        ELSE Ok(dict_)

\* ------------------------------------------------------------------------
\* Names
\* ------------------------------------------------------------------------
SettingKeys == {"K1", "K2"}

MetaEnvNames ==
    {"GOOGLE_CLOUD_PROJECT", "KONFUG_DATASTORE_SETTINGS_KIND",
     "KONFUG_DATASTORE_NAMESPACE", "KONFUG_DATASTORE_COMMON_NAMESPACE",
     "KONFUG_STRINGLIST_SEPARATOR", "KONFUG_FORCE_DATASTORE"}

EnvNames == MetaEnvNames \cup SettingKeys

KwargNames ==
    {"project_id", "settings_kind", "namespace", "common_namespace",
     "stringlist_separator", "force_datastore",
     "skip_datastore", "skip_secret_manager", "skip_firebase"}

\* The empty dict over the setting keys.
EmptyDict == [k \in SettingKeys |-> Absent]

\* ------------------------------------------------------------------------
\* Konfug.check_metaconfig
\* ------------------------------------------------------------------------
\* check_metaconfig with the environment consulted before the keyword argument.
check_metaconfig_env_first(kwargs, env, global_name, kwarg_name, required) ==
    IF Truthy(env[global_name]) THEN Ok(env[global_name])
    ELSE IF Truthy(kwargs[kwarg_name]) THEN Ok(kwargs[kwarg_name])
    ELSE IF required
         THEN [kind |-> "err",
               val  |-> <<"KonfugMetaConfigError", global_name, kwarg_name>>]
         ELSE Ok(NoneV)

check_metaconfig(kwargs, env, global_name, kwarg_name, required) ==
    IF Truthy(kwargs[kwarg_name]) THEN Ok(kwargs[kwarg_name])
    ELSE IF Truthy(env[global_name]) THEN Ok(env[global_name])
    ELSE IF required
         THEN [kind |-> "err",
               val  |-> <<"KonfugMetaConfigError", global_name, kwarg_name>>]
         ELSE Ok(NoneV)

\* ------------------------------------------------------------------------
\* Konfug.__init__
\* ------------------------------------------------------------------------
\* The exception classes the constructor's except clause names.
CaughtByInit == {"StopIteration", "TypeError", "DefaultCredentialsError"}

\* kwargs.get(name, False) for the skip flags.
KwFlag(kwargs, name) == IF kwargs[name] = Absent THEN FalseV ELSE kwargs[name]

\* fetch_kinds(ns): `q` is what the datastore query does when iterated,
\* [exc |-> the exception it raises or "", recs |-> the records it yields].
fetch_kinds(skip_datastore, q) ==
    IF skip_datastore = FalseV
    THEN IF q.exc # "" THEN [exc |-> q.exc, dict |-> EmptyDict]
         ELSE IF q.recs = <<>> THEN [exc |-> "StopIteration", dict |-> EmptyDict]
         ELSE [exc |-> "", dict |-> Head(q.recs)]
    ELSE [exc |-> "", dict |-> EmptyDict]

\* dict.update: the argument's keys override.
DictUpdate(d, other) ==
    [k \in SettingKeys |-> IF other[k] # Absent THEN other[k] ELSE d[k]]

\* The instance a constructor call leaves, or the exception it raises.
\* `falsey` is the falsey_expressions kwarg ({Absent} when not passed);
\* `store` is what the remote clients do during this call.
Konfug_init_result(kwargs, falsey, env, store) ==
    LET project_id  == check_metaconfig(kwargs, env, "GOOGLE_CLOUD_PROJECT",
                                        "project_id", TRUE)
        settings_kind == check_metaconfig(kwargs, env,
                             "KONFUG_DATASTORE_SETTINGS_KIND", "settings_kind", TRUE)
        namespace   == check_metaconfig(kwargs, env, "KONFUG_DATASTORE_NAMESPACE",
                                        "namespace", TRUE)
        common_namespace == check_metaconfig(kwargs, env,
                             "KONFUG_DATASTORE_COMMON_NAMESPACE",
                             "common_namespace", FALSE)
        stringlist_separator == check_metaconfig(kwargs, env,
                             "KONFUG_STRINGLIST_SEPARATOR",
                             "stringlist_separator", FALSE)
        sep         == IF Truthy(stringlist_separator.val)
                       THEN stringlist_separator.val ELSE <<",">>
        falsey_expressions == IF falsey = {Absent}
                              THEN DEFAULT_FALSEY_EXPRESSIONS ELSE falsey
        force_datastore == to_bool(
                             check_metaconfig(kwargs, env, "KONFUG_FORCE_DATASTORE",
                                              "force_datastore", FALSE).val,
                             falsey_expressions).val = TrueV
        skip_datastore      == KwFlag(kwargs, "skip_datastore")
        skip_secret_manager == KwFlag(kwargs, "skip_secret_manager")
        skip_firebase       == KwFlag(kwargs, "skip_firebase")
        \* datastore.Client(project=project_id)
        dataclient_exc == IF ~Truthy(skip_datastore) THEN store.dataclient ELSE ""
        \* secretmanager.SecretManagerServiceClient()
        secretclient_exc == IF dataclient_exc = "" /\ ~Truthy(skip_secret_manager)
                            THEN store.secretclient ELSE ""
        clients_exc == IF dataclient_exc # "" THEN dataclient_exc ELSE secretclient_exc
        settings    == fetch_kinds(skip_datastore, store.specific)
        common      == IF Truthy(common_namespace.val)
                       THEN fetch_kinds(skip_datastore, store.common)
                       ELSE [exc |-> "", dict |-> EmptyDict]
        exc         == IF clients_exc # "" THEN clients_exc
                       ELSE IF settings.exc # "" THEN settings.exc
                       ELSE common.exc
        secretclient == IF clients_exc = "" /\ ~Truthy(skip_secret_manager)
                        THEN "client" ELSE "None"
        fields(snapshot) ==
            [_common_settings      |-> snapshot,
             _stringlist_separator |-> sep,
             _falsey_expressions   |-> falsey_expressions,
             _skip_secret_manager  |-> skip_secret_manager,
             _skip_firebase        |-> skip_firebase,
             _secretclient         |-> secretclient,
             project_id            |-> project_id.val,
             force_datastore       |-> force_datastore]
        raised(e) == [outcome |-> "raised", exc |-> e, self |-> fields(EmptyDict)]
    IN  IF project_id.kind = "err" THEN raised(project_id.val)
        ELSE IF settings_kind.kind = "err" THEN raised(settings_kind.val)
        ELSE IF namespace.kind = "err" THEN raised(namespace.val)
        ELSE IF exc # "" THEN
             IF exc \in CaughtByInit /\ ~force_datastore
             THEN [outcome |-> "ready", exc |-> <<exc>>, self |-> fields(EmptyDict)]
             ELSE raised(<<exc>>)
        ELSE [outcome |-> "ready", exc |-> <<>>,
              self |-> fields(DictUpdate(common.dict, settings.dict))]

\* ------------------------------------------------------------------------
\* Konfug.raw_setting, Konfug.secret
\* ------------------------------------------------------------------------
KonfugMissingError(missing_setting, is_secret) ==
    [kind |-> "err",
     val  |-> <<"KonfugMissingError", missing_setting,
                IF is_secret THEN "secret" ELSE "setting">>]

\* The callables the typed accessors pass as apply_ ("None": no callable).
Transforms == {"None", "_to_bool", "_to_stringlist", "_to_int", "_to_dict", "_to_float"}

\* apply_(val) if callable(apply_) else val
Apply(self, apply_, val) ==
    CASE apply_ = "_to_bool"       -> to_bool(val, self._falsey_expressions)
      [] apply_ = "_to_stringlist" -> to_stringlist(val, self._stringlist_separator)
      [] apply_ = "_to_int"        -> to_int(val)
      [] apply_ = "_to_dict"       -> to_dict(val)
      [] apply_ = "_to_float"      -> to_float(val)
      [] OTHER                     -> Ok(val)

\* HotFug.__init__: the handle raw_setting returns for hot=True.
HotFug_new(key, default_val, apply_) ==
    [key |-> key, default_val |-> default_val, apply |-> apply_]

\* raw_setting with the snapshot consulted before the environment.
raw_setting_snapshot_first(self, env, key, default_val, apply_, nullable, hot) ==
    IF hot /\ ~Truthy(self._skip_firebase)
    THEN [raw |-> Absent,
          res |-> [kind |-> "handle",
                   val  |-> <<"<HotFug>", key, apply_>> \o default_val]]
    ELSE IF self._common_settings[key] # Absent
         THEN [raw |-> self._common_settings[key],
               res |-> Apply(self, apply_, self._common_settings[key])]
    ELSE IF env[key] # Absent
         THEN [raw |-> env[key], res |-> Apply(self, apply_, env[key])]
    ELSE IF default_val # NoneV
         THEN [raw |-> default_val, res |-> Apply(self, apply_, default_val)]
    ELSE IF ~nullable
         THEN [raw |-> Absent, res |-> KonfugMissingError(key, FALSE)]
    ELSE [raw |-> NoneV, res |-> Apply(self, apply_, NoneV)]

\* raw |-> the value of `val` at the return statement (Absent when the call
\* never reaches it), res |-> what the call returns or raises.
raw_setting(self, env, key, default_val, apply_, nullable, hot) ==
    IF hot /\ ~Truthy(self._skip_firebase)
    THEN [raw |-> Absent,
          res |-> [kind |-> "handle",
                   val  |-> <<"<HotFug>", key, apply_>> \o default_val]]
    ELSE IF env[key] # Absent
         THEN [raw |-> env[key], res |-> Apply(self, apply_, env[key])]
    ELSE IF self._common_settings[key] # Absent
         THEN [raw |-> self._common_settings[key],
               res |-> Apply(self, apply_, self._common_settings[key])]
    ELSE IF default_val # NoneV
         THEN [raw |-> default_val, res |-> Apply(self, apply_, default_val)]
    ELSE IF ~nullable
         THEN [raw |-> Absent, res |-> KonfugMissingError(key, FALSE)]
    ELSE [raw |-> NoneV, res |-> Apply(self, apply_, NoneV)]

\* bytes.decode(encoding): the text, or UnicodeDecodeError on a byte that is
\* not valid in the encoding (the token "<xff>").
decode(data, encoding) ==
    IF \E i \in 1..Len(data) : data[i] = "<xff>"
    THEN Raise("UnicodeDecodeError", "decode")
    ELSE Ok(Tail(data))

\* `vault` is what access_secret_version does in this call:
\* [exc |-> the exception it raises or "", data |-> the payload bytes].
secret(self, env, key, default_val, transform, encoding, vault) ==
    LET decoded == decode(vault.data, encoding)
        fetched == IF vault.exc # "" THEN Raise(vault.exc, key)
                   ELSE IF decoded.kind = "err" THEN decoded
                   ELSE IF transform # "None" THEN Apply(self, transform, decoded.val)
                   ELSE decoded
        val     == IF env[key] # Absent THEN Ok(env[key])
                   ELSE IF Truthy(self._skip_secret_manager)
                           \/ self._secretclient = "None"
                        THEN Ok(NoneV)
                   ELSE fetched
    IN  IF val.kind = "err" THEN val
        ELSE IF val.val = NoneV /\ Truthy(default_val) THEN Ok(default_val)
        ELSE IF val.val = NoneV THEN KonfugMissingError(key, TRUE)
        ELSE val

\* HotFug.hotfug_cls: the subclass carrying the credentials and collection.
hotfug_cls(credentials, collection) ==
    [FIREBASE_CREDENTIAL_JSON |-> credentials, COLLECTION |-> collection]

\* ------------------------------------------------------------------------
\* HotFug, HotFugCollection
\* ------------------------------------------------------------------------
\* `doc` is what the live fetch does in this call: [exc |-> the exception it
\* raises or "", exists |-> doc.exists, value |-> doc.to_dict().get('value')].
retrieve(self, handle, doc) ==
    IF doc.exc # "" THEN Raise(doc.exc, handle.key)
    ELSE IF doc.exists THEN Apply(self, handle.apply, doc.value)
    ELSE IF Truthy(handle.default_val) THEN Ok(handle.default_val)
    ELSE Ok(NoneV)

\* attribute in self._hotconfs, for the list _hotconfs.
InList(list, item) == \E i \in 1..Len(list) : list[i] = item

\* list[index] for an index that is a str: lists take integers and slices.
list_getitem(list, index) ==
    Raise("TypeError", "list indices must be integers or slices, not str")

\* No such instance attribute.
NoAttr == [key |-> "", default_val |-> Absent, apply |-> ""]

\* HotFugCollection.__getattribute__ for an attribute that holds a HotFug.
HotFugCollection_getattribute(self, attrs, hotconfs, attribute, doc) ==
    LET value == retrieve(self, attrs[attribute], doc) IN
    IF attrs[attribute] = NoAttr THEN Raise("AttributeError", attribute)
    ELSE IF value.kind = "err" THEN value
    ELSE IF value.val = NoneV
         THEN IF InList(hotconfs, attribute)
              THEN list_getitem(hotconfs, attribute)
              ELSE KonfugMissingError(attribute, FALSE)
    ELSE value

\* ------------------------------------------------------------------------
\* Inputs
\* ------------------------------------------------------------------------
MaxHotconfs == 2

BaseEnv ==
    [n \in EnvNames |->
        CASE n = "GOOGLE_CLOUD_PROJECT"           -> <<"p">>
          [] n = "KONFUG_DATASTORE_SETTINGS_KIND" -> <<"k">>
          [] n = "KONFUG_DATASTORE_NAMESPACE"     -> <<"n">>
          [] OTHER                                -> Absent]

BaseKwargs == [n \in KwargNames |-> Absent]

\* Environments and keyword arguments of a constructor call: the base, with
\* one bootstrap variable (and the setting K1) varied.
CtorEnvs ==
    { [BaseEnv EXCEPT ![v] = x, !["K1"] = y] :
        v \in MetaEnvNames, x \in {Absent, <<>>, <<"e">>, <<"0">>},
        y \in {Absent, <<"7">>} }

CtorKwargs ==
    { [BaseKwargs EXCEPT ![v] = x] :
        v \in KwargNames, x \in {Absent, <<>>, <<"a">>, TrueV} }

\* The falsey_expressions keyword argument of a constructor call: not passed.
CtorFalsey == { {Absent} }

\* Datastore records.
R1 == [k \in SettingKeys |-> IF k = "K1" THEN <<"0">> ELSE Absent]
R2 == [k \in SettingKeys |-> <<"9">>]
Rc == [k \in SettingKeys |-> IF k = "K1" THEN <<"a", ",", " ", "b">> ELSE NoneV]

Q(recs)  == [exc |-> "", recs |-> recs]
QErr(e)  == [exc |-> e, recs |-> <<>>]

CtorStores ==
    [dataclient   : {"", "DefaultCredentialsError"},
     secretclient : {"", "DefaultCredentialsError"},
     specific     : {Q(<<>>), Q(<<R1>>), Q(<<R1, R2>>),
                     QErr("ServiceUnavailable"), QErr("TypeError")},
     common       : {Q(<<>>), Q(<<Rc>>), QErr("ServiceUnavailable")}]

\* The resolvers the operations are exercised on.
OpEnvs == { [BaseEnv EXCEPT !["K1"] = y] : y \in {Absent, <<"7">>} }

OkStore == [dataclient |-> "", secretclient |-> "",
            specific |-> Q(<<R1>>), common |-> Q(<<Rc>>)]

Config(kwargs, falsey, store) == [kwargs |-> kwargs, falsey |-> falsey, store |-> store]

WithCommon == [BaseKwargs EXCEPT !["common_namespace"] = <<"c">>]

OpConfigs ==
    { Config(BaseKwargs, {Absent}, OkStore),
      Config(WithCommon, {Absent}, OkStore),
      Config(WithCommon, {<<"n", "o">>}, OkStore),
      Config(WithCommon, {Absent}, [OkStore EXCEPT !.common = Q(<<>>)]),
      Config(WithCommon, {Absent},
             [OkStore EXCEPT !.secretclient = "DefaultCredentialsError"]),
      Config([WithCommon EXCEPT !["skip_secret_manager"] = TrueV], {Absent}, OkStore),
      Config([WithCommon EXCEPT !["skip_firebase"] = TrueV], {Absent}, OkStore),
      Config([WithCommon EXCEPT !["stringlist_separator"] = <<";">>], {Absent}, OkStore) }

EnvVals  == {Absent, <<>>, <<"7">>}
Defaults == {NoneV, <<>>, <<"5">>}

Vault(e, d) == [exc |-> e, data |-> d]
NoVault     == Vault("", <<"<bytes>">>)
Vaults ==
    { Vault("", <<"<bytes>", "3">>), Vault("", <<"<bytes>", "<xff>">>),
      Vault("NotFound", <<"<bytes>">>) }
SecretTransforms == {"None", "_to_int"}

AttrNames   == {"A1", "A2"}
HotDefaults == {NoneV, <<"5">>}
HotApply    == {"None", "_to_int"}
Doc(e, x, v) == [exc |-> e, exists |-> x, value |-> v]
Docs ==
    { Doc("", FALSE, NoneV), Doc("", TRUE, <<"7">>), Doc("", TRUE, <<"8">>),
      Doc("ServiceUnavailable", FALSE, NoneV) }

\* ------------------------------------------------------------------------
\* State
\* ------------------------------------------------------------------------
VARIABLES
    phase,                  \* "new", "ready" (constructed), "raised"
    environ,                \* os.environ
    _common_settings,       \* Konfug: the merged snapshot
    _stringlist_separator,
    _falsey_expressions,
    _skip_secret_manager,
    _skip_firebase,
    _secretclient,          \* "client" or "None"
    _secret_resource_name_tpl,   \* the project id the template is built from
    _hot_cls,
    attrs,                  \* HotFugCollection: the HotFug held by each attribute
    _hotconfs,              \* HotFugCollection._hotconfs
    ctor,                   \* history: how the constructor call ended
    last,                   \* history: the last Konfug call, its arguments and result
    lastgood,               \* history: per key, the value of the last successful live fetch
    hot_last                \* history: the last access to the collection

konfug_vars ==
    <<_common_settings, _stringlist_separator, _falsey_expressions,
      _skip_secret_manager, _skip_firebase, _secretclient,
      _secret_resource_name_tpl>>
hot_vars == <<attrs, _hotconfs, lastgood, hot_last>>
vars == <<phase, environ, konfug_vars, _hot_cls, ctor, last, hot_vars>>

Self ==
    [_common_settings      |-> _common_settings,
     _stringlist_separator |-> _stringlist_separator,
     _falsey_expressions   |-> _falsey_expressions,
     _skip_secret_manager  |-> _skip_secret_manager,
     _skip_firebase        |-> _skip_firebase,
     _secretclient         |-> _secretclient]

NoStore == [dataclient |-> "", secretclient |-> "", specific |-> Q(<<>>), common |-> Q(<<>>)]

Call(op, key, default_val, apply_, nullable, hot, raw, res) ==
    [op |-> op, key |-> key, default_val |-> default_val, apply_ |-> apply_,
     nullable |-> nullable, hot |-> hot, raw |-> raw, res |-> res,
     kwargs |-> BaseKwargs, falsey |-> {Absent}, store |-> NoStore,
     vault |-> NoVault]

NoCall == Call("none", "", NoneV, "None", FALSE, FALSE, Absent, Ok(NoneV))

HotCall(op, attribute, handle, doc, prev, res) ==
    [op |-> op, attribute |-> attribute, handle |-> handle, doc |-> doc,
     prev |-> prev, res |-> res]

NoHotCall == HotCall("none", "", NoAttr, Doc("", FALSE, NoneV), Absent, Ok(NoneV))

\* The instance fields after a constructor call that returned.
Constructed(r) ==
    /\ _common_settings = r.self._common_settings
    /\ _stringlist_separator = r.self._stringlist_separator
    /\ _falsey_expressions = r.self._falsey_expressions
    /\ _skip_secret_manager = r.self._skip_secret_manager
    /\ _skip_firebase = r.self._skip_firebase
    /\ _secretclient = r.self._secretclient
    /\ _secret_resource_name_tpl = r.self.project_id

HotFugCollection_init ==
    /\ attrs = [a \in AttrNames |-> NoAttr]
    /\ _hotconfs = <<>>
    /\ lastgood = [k \in SettingKeys |-> Absent]
    /\ hot_last = NoHotCall

\* Before Konfug(**kwargs) is called.
InitCtor ==
    /\ phase = "new"
    /\ environ \in CtorEnvs
    /\ _common_settings = EmptyDict
    /\ _stringlist_separator = <<",">>
    /\ _falsey_expressions = DEFAULT_FALSEY_EXPRESSIONS
    /\ _skip_secret_manager = FalseV
    /\ _skip_firebase = FalseV
    /\ _secretclient = "None"
    /\ _secret_resource_name_tpl = NoneV
    /\ _hot_cls = hotfug_cls(NoneV, NoneV)
    /\ ctor = [exc |-> <<>>, force |-> FALSE]
    /\ last = NoCall
    /\ HotFugCollection_init

\* After Konfug(**kwargs) returned.
Init ==
    /\ phase = "ready"
    /\ environ \in OpEnvs
    /\ \E c \in OpConfigs :
         LET r == Konfug_init_result(c.kwargs, c.falsey, environ, c.store) IN
           /\ r.outcome = "ready"
           /\ Constructed(r)
           /\ ctor = [exc |-> r.exc, force |-> r.self.force_datastore]
    /\ _hot_cls = hotfug_cls(NoneV, NoneV)
    /\ last = NoCall
    /\ HotFugCollection_init

\* A resolver built with the defaults, and its empty collection.
InitHot ==
    /\ phase = "ready"
    /\ environ = BaseEnv
    /\ LET r == Konfug_init_result(BaseKwargs, {Absent}, BaseEnv,
                    [NoStore EXCEPT !.specific = Q(<<R1>>)]) IN
           /\ Constructed(r)
           /\ ctor = [exc |-> r.exc, force |-> r.self.force_datastore]
    /\ _hot_cls = hotfug_cls(NoneV, NoneV)
    /\ last = NoCall
    /\ HotFugCollection_init

\* ------------------------------------------------------------------------
\* Operations
\* ------------------------------------------------------------------------
\* Konfug(**kwargs)
Konfug_init ==
    /\ phase = "new"
    /\ \E kwargs \in CtorKwargs, falsey \in CtorFalsey, store \in CtorStores :
         LET r == Konfug_init_result(kwargs, falsey, environ, store) IN
           /\ phase' = r.outcome
           /\ IF r.outcome = "ready"
              THEN /\ _common_settings' = r.self._common_settings
                   /\ _stringlist_separator' = r.self._stringlist_separator
                   /\ _falsey_expressions' = r.self._falsey_expressions
                   /\ _skip_secret_manager' = r.self._skip_secret_manager
                   /\ _skip_firebase' = r.self._skip_firebase
                   /\ _secretclient' = r.self._secretclient
                   /\ _secret_resource_name_tpl' = r.self.project_id
              ELSE UNCHANGED konfug_vars
           /\ ctor' = [exc |-> r.exc, force |-> r.self.force_datastore]
           /\ last' = [Call("init", "", NoneV, "None", FALSE, FALSE, Absent, Ok(NoneV))
                          EXCEPT !.kwargs = kwargs, !.falsey = falsey, !.store = store]
    /\ UNCHANGED <<environ, _hot_cls, hot_vars>>

\* raw_setting reading the snapshot with dict.pop: the key is consumed.
raw_setting_call_pop ==
    /\ phase = "ready"
    /\ \E key \in SettingKeys, default_val \in Defaults, apply_ \in Transforms,
          nullable \in BOOLEAN, hot \in BOOLEAN :
         LET r == raw_setting(Self, environ, key, default_val, apply_, nullable, hot)
         IN  /\ last' = Call("get", key, default_val, apply_, nullable, hot, r.raw, r.res)
             /\ _common_settings' =
                  IF environ[key] = Absent /\ ~(hot /\ ~Truthy(_skip_firebase))
                  THEN [_common_settings EXCEPT ![key] = Absent]
                  ELSE _common_settings
    /\ UNCHANGED <<phase, environ, _stringlist_separator, _falsey_expressions,
                   _skip_secret_manager, _skip_firebase, _secretclient,
                   _secret_resource_name_tpl, _hot_cls, ctor, hot_vars>>

\* konfug.raw_setting(key, default_val, apply_, nullable, hot)
raw_setting_call ==
    /\ phase = "ready"
    /\ \E key \in SettingKeys, default_val \in Defaults, apply_ \in Transforms,
          nullable \in BOOLEAN, hot \in BOOLEAN :
         LET r == raw_setting(Self, environ, key, default_val, apply_, nullable, hot)
         IN  last' = Call("get", key, default_val, apply_, nullable, hot, r.raw, r.res)
    /\ UNCHANGED <<phase, environ, konfug_vars, _hot_cls, ctor, hot_vars>>

\* konfug.string(key, default_val, hot)
string_call ==
    /\ phase = "ready"
    /\ \E key \in SettingKeys, default_val \in Defaults, hot \in BOOLEAN :
         LET r == raw_setting(Self, environ, key, default_val, "None", FALSE, hot)
         IN  last' = Call("get", key, default_val, "None", FALSE, hot, r.raw, r.res)
    /\ UNCHANGED <<phase, environ, konfug_vars, _hot_cls, ctor, hot_vars>>

\* konfug.secret(key, default_val, transform)
secret_call ==
    /\ phase = "ready"
    /\ \E key \in SettingKeys, default_val \in Defaults,
          transform \in SecretTransforms, vault \in Vaults :
         last' = [Call("secret", key, default_val, transform, FALSE, FALSE, Absent,
                       secret(Self, environ, key, default_val, transform, UTF8, vault))
                     EXCEPT !.vault = vault]
    /\ UNCHANGED <<phase, environ, konfug_vars, _hot_cls, ctor, hot_vars>>

\* konfug.hot_settings(credentials, collection)
hot_settings_call ==
    /\ phase = "ready"
    /\ \E credentials \in {<<"j">>}, collection \in {<<"c">>, <<"d">>} :
         _hot_cls' = hotfug_cls(credentials, collection)
    /\ last' = Call("hot_settings", "", NoneV, "None", FALSE, FALSE, Absent, Ok(NoneV))
    /\ UNCHANGED <<phase, environ, konfug_vars, ctor, hot_vars>>

\* os.environ[key] = value, del os.environ[key]: the process changes its
\* environment between two calls.
environ_set ==
    /\ phase = "ready"
    /\ \E key \in SettingKeys, value \in EnvVals :
         /\ environ[key] # value
         /\ environ' = [environ EXCEPT ![key] = value]
    /\ last' = Call("environ", "", NoneV, "None", FALSE, FALSE, Absent, Ok(NoneV))
    /\ UNCHANGED <<phase, konfug_vars, _hot_cls, ctor, hot_vars>>

\* collection.<name> = konfug.raw_setting(key, default_val, apply_, hot=True)
HotFugCollection_setattr ==
    /\ Len(_hotconfs) < MaxHotconfs
    /\ \E name \in AttrNames, key \in SettingKeys, default_val \in HotDefaults,
          apply_ \in HotApply :
         LET value == HotFug_new(key, default_val, apply_) IN
           /\ _hotconfs' = Append(_hotconfs, name)
           /\ attrs' = [attrs EXCEPT ![name] = value]
           /\ hot_last' = HotCall("setattr", name, value, Doc("", FALSE, NoneV),
                                  lastgood[key], Ok(NoneV))
    /\ UNCHANGED <<phase, environ, konfug_vars, _hot_cls, ctor, last, lastgood>>

\* collection.<name>
HotFugCollection_getattr ==
    /\ \E name \in AttrNames, doc \in Docs :
         LET handle == attrs[name]
             res    == HotFugCollection_getattribute(Self, attrs, _hotconfs, name, doc)
             got    == IF handle # NoAttr /\ doc.exc = "" /\ doc.exists
                       THEN Apply(Self, handle.apply, doc.value)
                       ELSE Raise("", "")
         IN  /\ handle # NoAttr
             /\ lastgood' = IF got.kind = "ok"
                            THEN [lastgood EXCEPT ![handle.key] = got.val]
                            ELSE lastgood
             /\ hot_last' = HotCall("get", name, handle, doc, lastgood[handle.key], res)
    /\ UNCHANGED <<phase, environ, konfug_vars, _hot_cls, ctor, last, attrs, _hotconfs>>

Next ==
    \/ raw_setting_call
    \/ secret_call
    \/ hot_settings_call
    \/ environ_set

NextCtor ==
    \/ Konfug_init
    \/ string_call

NextHot ==
    \/ HotFugCollection_setattr
    \/ HotFugCollection_getattr

Spec     == Init /\ [][Next]_vars
SpecCtor == InitCtor /\ [][NextCtor]_vars
SpecHot  == InitHot /\ [][NextHot]_vars

\* ------------------------------------------------------------------------
\* Properties
\* ------------------------------------------------------------------------
\* The last call was a raw_setting that resolved a value (not a hot handle).
Resolving == last.op = "get" /\ ~(last.hot /\ ~Truthy(_skip_firebase))

\* C1: raw_setting takes the environment value whenever the environment
\* defines the key; otherwise the snapshot value when the snapshot contains
\* the key; otherwise the default when it is not None; otherwise None when
\* nullable; otherwise it raises KonfugMissingError(key).  Without a
\* transform the resolved value is what the call returns.
C1_ResolutionPrecedence ==
    Resolving =>
        LET k == last.key IN
        /\ environ[k] # Absent => last.raw = environ[k]
        /\ (environ[k] = Absent /\ _common_settings[k] # Absent)
              => last.raw = _common_settings[k]
        /\ (environ[k] = Absent /\ _common_settings[k] = Absent
              /\ last.default_val # NoneV) => last.raw = last.default_val
        /\ (environ[k] = Absent /\ _common_settings[k] = Absent
              /\ last.default_val = NoneV /\ last.nullable) => last.raw = NoneV
        /\ (environ[k] = Absent /\ _common_settings[k] = Absent
              /\ last.default_val = NoneV /\ ~last.nullable)
              => last.res = KonfugMissingError(k, FALSE)
        /\ (last.apply_ = "None" /\ last.raw # Absent) => last.res = Ok(last.raw)

\* The environment, the snapshot and the default all offer a (different)
\* value for the key, and the call returned the environment's.
C1_Witness ==
    /\ Resolving
    /\ environ[last.key] # Absent
    /\ _common_settings[last.key] # Absent
    /\ _common_settings[last.key] # environ[last.key]
    /\ last.default_val \notin {NoneV, environ[last.key]}
    /\ last.apply_ = "None"
    /\ last.res = Ok(environ[last.key])

\* C2 (as claimed): once a live fetch for the key has succeeded with value
\* v1, an access whose fetch returns "absent" returns v1 and does not fail.
C2_StalenessLaw ==
    (hot_last.op = "get" /\ hot_last.doc.exc = "" /\ ~hot_last.doc.exists
        /\ hot_last.prev # Absent)
    => hot_last.res = Ok(hot_last.prev)

\* C3 (as claimed): with no successful fetch so far and a fetch that returns
\* "absent", the access returns the static default if one was supplied and
\* otherwise raises KonfugMissingError, and no other error.
C3_FallbackWithoutCache ==
    (hot_last.op = "get" /\ hot_last.doc.exc = "" /\ ~hot_last.doc.exists
        /\ hot_last.prev = Absent)
    => IF hot_last.handle.default_val # NoneV
       THEN hot_last.res = Ok(hot_last.handle.default_val)
       ELSE /\ hot_last.res.kind = "err"
            /\ hot_last.res.val[1] = "KonfugMissingError"

\* The constructor call's bootstrap parameters, from its arguments.
MetaMissing(global_name, kwarg_name) ==
    ~Truthy(last.kwargs[kwarg_name]) /\ ~Truthy(environ[global_name])
MetaValue(global_name, kwarg_name) ==
    IF Truthy(last.kwargs[kwarg_name]) THEN last.kwargs[kwarg_name]
    ELSE IF Truthy(environ[global_name]) THEN environ[global_name]
    ELSE NoneV
RequiredMissing ==
    \/ MetaMissing("GOOGLE_CLOUD_PROJECT", "project_id")
    \/ MetaMissing("KONFUG_DATASTORE_SETTINGS_KIND", "settings_kind")
    \/ MetaMissing("KONFUG_DATASTORE_NAMESPACE", "namespace")
CommonConfigured ==
    MetaValue("KONFUG_DATASTORE_COMMON_NAMESPACE", "common_namespace") # NoneV
\* The first record of a query, the empty mapping for zero records.
FirstOrEmpty(q) == IF q.recs = <<>> THEN EmptyDict ELSE Head(q.recs)

\* C4 (as claimed): when neither the clients nor the namespace queries raise
\* an error, construction succeeds and the snapshot is common overridden by
\* specific, a namespace with zero records contributing the empty mapping,
\* whether or not the force flag is set.
C4_MergeLaw ==
    (/\ last.op = "init"
     /\ ~RequiredMissing
     /\ KwFlag(last.kwargs, "skip_datastore") = FalseV
     /\ last.store.dataclient = "" /\ last.store.secretclient = ""
     /\ last.store.specific.exc = ""
     /\ (CommonConfigured => last.store.common.exc = ""))
    => /\ phase = "ready"
       /\ _common_settings =
            DictUpdate(IF CommonConfigured THEN FirstOrEmpty(last.store.common)
                       ELSE EmptyDict,
                       FirstOrEmpty(last.store.specific))

\* The store was unreachable during construction: no credentials, or no
\* connection.
Unreachable ==
    ctor.exc \in {<<"DefaultCredentialsError">>, <<"ServiceUnavailable">>}

\* C5 (as claimed): an unreachable store makes construction fail when the
\* force flag is set; otherwise construction succeeds with an empty snapshot,
\* and a later lookup resolves from the environment, then the default.
C5_FailurePolicy ==
    Unreachable =>
        IF ctor.force THEN phase = "raised"
        ELSE /\ phase = "ready"
             /\ _common_settings = EmptyDict
             /\ (Resolving /\ environ[last.key] = Absent
                   /\ last.default_val # NoneV) => last.raw = last.default_val

\* C6 (as claimed): secret returns the environment value when the key is
\* set there; otherwise the vault's value; and when no value is obtained
\* (vault skipped, no client, or the fetch fails) the default if it is truthy
\* and otherwise KonfugMissingError(key): a failed fetch raises nothing else.
C6_SecretPrecedence ==
    last.op = "secret" =>
        LET k == last.key
            consulted == ~Truthy(_skip_secret_manager) /\ _secretclient # "None"
            fallback == IF Truthy(last.default_val) THEN Ok(last.default_val)
                        ELSE KonfugMissingError(k, TRUE)
        IN  /\ environ[k] # Absent => last.res = Ok(environ[k])
            /\ (environ[k] = Absent /\ ~consulted) => last.res = fallback
            /\ (environ[k] = Absent /\ consulted /\ last.vault.exc # "")
                  => last.res = fallback
            /\ (environ[k] = Absent /\ consulted /\ last.vault.exc = ""
                  /\ last.apply_ = "None" /\ last.res.kind = "ok")
                  => last.res = Ok(Tail(last.vault.data))

\* C7: a truthy keyword argument is taken before the environment variable,
\* a truthy environment variable otherwise; a required parameter (project
\* id, settings kind, namespace) in neither makes the constructor raise
\* KonfugMetaConfigError naming the variable and the argument, with or
\* without the force flag; an optional one in neither is None.
C7_Metaconfig ==
    last.op = "init" =>
        /\ RequiredMissing <=> phase = "raised" /\ Len(ctor.exc) = 3
        /\ RequiredMissing =>
             ctor.exc =
               IF MetaMissing("GOOGLE_CLOUD_PROJECT", "project_id")
               THEN <<"KonfugMetaConfigError", "GOOGLE_CLOUD_PROJECT", "project_id">>
               ELSE IF MetaMissing("KONFUG_DATASTORE_SETTINGS_KIND", "settings_kind")
               THEN <<"KonfugMetaConfigError", "KONFUG_DATASTORE_SETTINGS_KIND",
                      "settings_kind">>
               ELSE <<"KonfugMetaConfigError", "KONFUG_DATASTORE_NAMESPACE",
                      "namespace">>
        /\ phase = "ready" =>
             /\ _secret_resource_name_tpl =
                  MetaValue("GOOGLE_CLOUD_PROJECT", "project_id")
             /\ _stringlist_separator =
                  IF MetaValue("KONFUG_STRINGLIST_SEPARATOR",
                               "stringlist_separator") = NoneV
                  THEN <<",">>
                  ELSE MetaValue("KONFUG_STRINGLIST_SEPARATOR", "stringlist_separator")

\* A required parameter is missing, the force flag is set, and the
\* constructor raised KonfugMetaConfigError.
C7_Witness ==
    /\ last.op = "init"
    /\ RequiredMissing
    /\ ctor.force
    /\ Truthy(last.kwargs["force_datastore"])
    /\ phase = "raised"
    /\ ctor.exc[1] = "KonfugMetaConfigError"

\* C8: after construction no raw_setting, secret or hot_settings call changes
\* the snapshot, and a raw_setting call repeated with the same arguments
\* under the same environment gives the same result.
C8_SnapshotFrame ==
    [][ /\ _common_settings' = _common_settings
        /\ (/\ last.op = "get" /\ last'.op = "get"
            /\ last'.key = last.key /\ last'.default_val = last.default_val
            /\ last'.apply_ = last.apply_ /\ last'.nullable = last.nullable
            /\ last'.hot = last.hot)
           => (last'.res = last.res /\ last'.raw = last.raw) ]_vars

\* A lookup was answered from a non-empty snapshot.
C8_Witness ==
    /\ Resolving
    /\ environ[last.key] = Absent
    /\ _common_settings[last.key] # Absent
    /\ last.raw = _common_settings[last.key]

\* C9 (as claimed): a nullable lookup of a key that is in neither the
\* environment nor the snapshot, without a default, returns None whatever
\* the transform: the transform is not applied to None.
C9_NullableSkipsTransform ==
    (/\ Resolving
     /\ environ[last.key] = Absent
     /\ _common_settings[last.key] = Absent
     /\ last.default_val = NoneV
     /\ last.nullable)
    => last.res = Ok(NoneV)

\* C10 (as claimed): the collection holds an entry for an attribute only
\* after a successful live fetch for its key; registering a handle creates
\* none.
C10_CacheWriteInvariant ==
    \A a \in AttrNames :
        InList(_hotconfs, a) => lastgood[attrs[a].key] # Absent

====
